---- MODULE Spec2Model ----
(***************************************************************************)
(* A model of revng's GenericGraph (include/revng/ADT/GenericGraph.h)      *)
(* instantiated with MutableEdgeNode: the container's node list, every     *)
(* node's Successors (owning records) and Predecessors (non-owning         *)
(* records) vectors, and the heap of edge labels.  The same variables      *)
(* hold a graph of ForwardNode or BidirectionalNode in the specifications  *)
(* SpecForward and SpecBidirectional, whose records carry the label by     *)
(* value.                                                                  *)
(*                                                                         *)
(* A node is named by the identity of its allocation (1, 2, ...); a label  *)
(* by the identity of its allocation in Heap.  Vectors are sequences;      *)
(* an iterator is a position, end() is Len + 1.                            *)
(*                                                                         *)
(* IndentLevel and Enabled are the state of Logger (lib/Support/Debug.cpp) *)
(* that indent, unindent and setIndentation read and write.                *)
(***************************************************************************)
EXTENDS Integers, Sequences, FiniteSets, TLC

VARIABLES Constructed, Nodes, Successors, Predecessors, Heap, TheParent,
          EntryNode, status, last, IndentLevel, Enabled

vars == <<Constructed, Nodes, Successors, Predecessors, Heap, TheParent,
          EntryNode, status, last, IndentLevel, Enabled>>

\* Number of node objects ever constructed in one run.
MaxNodes == 3
\* Number of edge labels alive at the same time.
MaxEdges == 2

NodeIds == 1..MaxNodes
\* The null node pointer; node allocations are named from 1.
nullptr == 0
\* The values of EdgeLabel that callers pass.  The code never reads a label,
\* so what tells two labels apart in the model is their allocation.
LabelValues == {"EL"}

(***************************************************************************)
(* Vector helpers (llvm::SmallVector).                                     *)
(***************************************************************************)
End(v) == Len(v) + 1

\* An insertion at the front of the vector.
emplace_back_front(v, e) == <<e>> \o v

emplace_back(v, e) == Append(v, e)

\* A pop_back that leaves the vector as long as it was.
pop_back_none(v) == v

pop_back(v) == SubSeq(v, 1, Len(v) - 1)

\* A removal that pops the back without swapping the record into it first.
swapWithBack_none(v, it) == v

\* std::swap(*it, v.back()) on the vector v.
swapWithBack(v, it) == [v EXCEPT ![it] = v[Len(v)], ![Len(v)] = v[it]]

\* An erase that drops the last element whatever the position.
erase_back(v, it) == SubSeq(v, 1, Len(v) - 1)

\* v.erase(it): the following elements move down by one.
erase(v, it) == SubSeq(v, 1, it - 1) \o SubSeq(v, it + 1, Len(v))

\* std::find_if over records by Neighbor: first matching position, or end.
findNeighbor(v, n) ==
  IF \E i \in 1..Len(v) : v[i].Neighbor = n
  THEN CHOOSE i \in 1..Len(v) :
         /\ v[i].Neighbor = n
         /\ \A j \in 1..(i - 1) : v[j].Neighbor # n
  ELSE End(v)

(***************************************************************************)
(* The graph as a value: N the container's Nodes, S and P every node's     *)
(* Successors and Predecessors, H the label heap.  The operations below    *)
(* are functions from a graph to a result [g, st, it]: st is "ok", "abort" *)
(* (a revng_assert fired), "ub" (the code read a record at or past end(),  *)
(* or followed a pointer to a destroyed node) or "hung" (a loop that never *)
(* ends).  TheParent is every node's back-reference ("nullptr", "G" for    *)
(* this graph, or another graph) and EntryNode the graph's entry node.     *)
(***************************************************************************)
Graph == [N |-> Nodes, S |-> Successors, P |-> Predecessors, H |-> Heap,
          TheParent |-> TheParent, EntryNode |-> EntryNode]

Result(g, st, it) == [g |-> g, st |-> st, it |-> it]

\* The nodes whose objects exist in graph g.
Alive(g) == {g.N[i] : i \in 1..Len(g.N)}

findPredecessorImpl(g, self, p) == findNeighbor(g.P[self], p)

\* A findSuccessorImpl that looks for the edge in the other direction, among
\* the records of Predecessors.
findSuccessorImpl_inPredecessors(g, self, s) == findNeighbor(g.P[self], s)

findSuccessorImpl(g, self, s) == findNeighbor(g.S[self], s)

\* A duplicate check that looks into the wrong vector.
hasSuccessor_wrongList(g, self, s) ==
  findPredecessorImpl(g, self, s) # End(g.P[self])

hasSuccessor(g, self, s) == findSuccessorImpl(g, self, s) # End(g.S[self])

hasPredecessor(g, self, p) == findPredecessorImpl(g, self, p) # End(g.P[self])

successorCount(g, self) == Len(g.S[self])

predecessorCount(g, self) == Len(g.P[self])

hasSuccessors(g, self) == Len(g.S[self]) # 0

hasPredecessors(g, self) == Len(g.P[self]) # 0

\* The heap H maps every live label allocation to the label's value.  An
\* allocation is named <<From, To, k>> after the edge it is made for, k
\* telling apart the allocations made for the same pair that are alive at
\* the same time.
Live(H) == DOMAIN H

\* std::make_unique<EdgeLabel>: an allocation that is not alive yet.
make_unique(H, From, To) ==
  LET k == CHOOSE i \in 1..(Cardinality(Live(H)) + 1) :
             /\ <<From, To, i>> \notin Live(H)
             /\ \A j \in 1..(i - 1) : <<From, To, j>> \in Live(H)
  IN  <<From, To, k>>

\* An allocation that releases the labels allocated before it.
alloc_only(H, l, EL) == [m \in {l} |-> EL]

\* operator new: H with allocation l holding the value EL.
alloc(H, l, EL) == [m \in Live(H) \cup {l} |-> IF m = l THEN EL ELSE H[m]]

\* A removal that gives up the labels without deleting them.
free_none(H, ls) == H

\* operator delete: H without the allocations in ls.
free(H, ls) == [m \in Live(H) \ ls |-> H[m]]

\* An edge whose view gets a copy of the label, as BidirectionalNode stores it.
constructEdge_copy(H, From, To, EL) ==
  LET l == make_unique(H, From, To)
      H1 == alloc(H, l, EL)
      c == make_unique(H1, From, To)
  IN  [O |-> [Neighbor |-> To, Label |-> l],
       V |-> [Neighbor |-> From, Label |-> c],
       H |-> alloc(H1, c, EL)]

\* constructEdge: one allocation; the owning record and the view share it.
constructEdge(H, From, To, EL) ==
  LET l == make_unique(H, From, To)
  IN  [O |-> [Neighbor |-> To, Label |-> l],
       V |-> [Neighbor |-> From, Label |-> l],
       H |-> alloc(H, l, EL)]

\* An addSuccessor that asserts after it has inserted.
addSuccessor_assertLate(g, self, NewSuccessor, EL) ==
  LET e == constructEdge(g.H, self, NewSuccessor, EL)
      S1 == [g.S EXCEPT ![self] = emplace_back(@, e.O)]
      P1 == [g.P EXCEPT ![NewSuccessor] = emplace_back(@, e.V)]
      g1 == [g EXCEPT !.S = S1, !.P = P1, !.H = e.H]
  IN  IF hasSuccessor(g, self, NewSuccessor)
      THEN Result(g1, "abort", 0)
      ELSE Result(g1, "ok", Len(S1[self]))

addSuccessor(g, self, NewSuccessor, EL) ==
  IF hasSuccessor(g, self, NewSuccessor)
  THEN Result(g, "abort", 0)
  ELSE LET e == constructEdge(g.H, self, NewSuccessor, EL)
           S1 == [g.S EXCEPT ![self] = emplace_back(@, e.O)]
           P1 == [g.P EXCEPT ![NewSuccessor] = emplace_back(@, e.V)]
       IN  Result([g EXCEPT !.S = S1, !.P = P1, !.H = e.H], "ok", Len(S1[self]))

\* An addPredecessor that builds the edge in the other direction.
addPredecessor_reversed(g, self, NewPredecessor, EL) ==
  addSuccessor(g, self, NewPredecessor, EL)

addPredecessor(g, self, NewPredecessor, EL) ==
  IF hasPredecessor(g, self, NewPredecessor)
  THEN Result(g, "abort", 0)
  ELSE LET e == constructEdge(g.H, NewPredecessor, self, EL)
           S1 == [g.S EXCEPT ![NewPredecessor] = emplace_back(@, e.O)]
           P1 == [g.P EXCEPT ![self] = emplace_back(@, e.V)]
       IN  Result([g EXCEPT !.S = S1, !.P = P1, !.H = e.H], "ok",
                  Len(S1[NewPredecessor]))

\* A removeSuccessorImpl that drops its own record and leaves the mirrored
\* half where it is, as the one-sided removals of BidirectionalNode do.
removeSuccessorImpl_oneSided(g, self, InputIterator) ==
  IF g.S[self] = <<>>
  THEN Result(g, "ok", End(g.S[self]))
  ELSE IF InputIterator > Len(g.S[self])
  THEN Result(g, "ub", InputIterator)
  ELSE LET S1 == [g.S EXCEPT ![self] = pop_back(swapWithBack(@, InputIterator))]
           H1 == free(g.H, {g.S[self][InputIterator].Label})
       IN  Result([g EXCEPT !.S = S1, !.H = H1], "ok", InputIterator)

\* removeSuccessorImpl: the record at InputIterator and its mirrored half.
removeSuccessorImpl(g, self, InputIterator) ==
  IF g.S[self] = <<>>
  THEN Result(g, "ok", End(g.S[self]))
  ELSE IF InputIterator > Len(g.S[self])
  THEN Result(g, "ub", InputIterator)
  ELSE LET Iterator == InputIterator
           Successor == g.S[self][Iterator].Neighbor
       IN  IF Successor \notin Alive(g)
           THEN Result(g, "ub", Iterator)
           ELSE IF g.P[Successor] = <<>>
           THEN Result(g, "ok", Iterator)
           ELSE LET PredecessorIt == findPredecessorImpl(g, Successor, self)
                IN  IF PredecessorIt = End(g.P[Successor])
                    THEN Result(g, "abort", Iterator)
                    ELSE LET P1 == [g.P EXCEPT ![Successor] =
                                      pop_back(swapWithBack(@, PredecessorIt))]
                             S1 == [g.S EXCEPT ![self] =
                                      pop_back(swapWithBack(@, Iterator))]
                             H1 == free(g.H, {g.S[self][Iterator].Label})
                         IN  Result([g EXCEPT !.S = S1, !.P = P1, !.H = H1],
                                    "ok", Iterator)

\* A removePredecessorImpl that pops the owner's last record without
\* swapping the mirrored one into the last place first.
removePredecessorImpl_noSwap(g, self, InputIterator) ==
  IF g.P[self] = <<>>
  THEN Result(g, "ok", End(g.P[self]))
  ELSE IF InputIterator > Len(g.P[self])
  THEN Result(g, "ub", InputIterator)
  ELSE LET Predecessor == g.P[self][InputIterator].Neighbor
       IN  IF Predecessor \notin Alive(g)
           THEN Result(g, "ub", InputIterator)
           ELSE IF g.S[Predecessor] = <<>>
           THEN Result(g, "ok", InputIterator)
           ELSE LET SuccessorIt == findSuccessorImpl(g, Predecessor, self)
                IN  IF SuccessorIt = End(g.S[Predecessor])
                    THEN Result(g, "abort", InputIterator)
                    ELSE LET back == g.S[Predecessor][Len(g.S[Predecessor])]
                             S1 == [g.S EXCEPT ![Predecessor] = pop_back(@)]
                             P1 == [g.P EXCEPT ![self] =
                                      pop_back(swapWithBack(@, InputIterator))]
                             H1 == free(g.H, {back.Label})
                         IN  Result([g EXCEPT !.S = S1, !.P = P1, !.H = H1],
                                    "ok", InputIterator)

\* removePredecessorImpl: the record at InputIterator and its mirrored half.
removePredecessorImpl(g, self, InputIterator) ==
  IF g.P[self] = <<>>
  THEN Result(g, "ok", End(g.P[self]))
  ELSE IF InputIterator > Len(g.P[self])
  THEN Result(g, "ub", InputIterator)
  ELSE LET Iterator == InputIterator
           Predecessor == g.P[self][Iterator].Neighbor
       IN  IF Predecessor \notin Alive(g)
           THEN Result(g, "ub", Iterator)
           ELSE IF g.S[Predecessor] = <<>>
           THEN Result(g, "ok", Iterator)
           ELSE LET SuccessorIt == findSuccessorImpl(g, Predecessor, self)
                IN  IF SuccessorIt = End(g.S[Predecessor])
                    THEN Result(g, "abort", Iterator)
                    ELSE LET owned == g.S[Predecessor][SuccessorIt].Label
                             S1 == [g.S EXCEPT ![Predecessor] =
                                      pop_back(swapWithBack(@, SuccessorIt))]
                             P1 == [g.P EXCEPT ![self] =
                                      pop_back(swapWithBack(@, Iterator))]
                             H1 == free(g.H, {owned})
                         IN  Result([g EXCEPT !.S = S1, !.P = P1, !.H = H1],
                                    "ok", Iterator)

\* removeSuccessor taking begin() for the record to remove.
removeSuccessor_first(g, self, s) ==
  removeSuccessorImpl(g, self, 1)

\* removeSuccessor(DerivedType const &) / removePredecessor(DerivedType const &).
removeSuccessor(g, self, s) ==
  removeSuccessorImpl(g, self, findSuccessorImpl(g, self, s))

\* removePredecessor taking begin() for the record to remove.
removePredecessor_first(g, self, p) ==
  removePredecessorImpl(g, self, 1)

removePredecessor(g, self, p) ==
  removePredecessorImpl(g, self, findPredecessorImpl(g, self, p))

\* What removeSuccessorImpl(Successors.end()) can leave behind when the
\* vector is not empty: Iterator->Neighbor is read past the end, and the call
\* goes on with whatever node X that storage names.  It returns at once when
\* X has no predecessors; it stops at the assertion when X has no record
\* naming self; otherwise it pops X's record naming self, swaps the storage
\* past the end with back() and pops it, so that self loses its last record
\* while no label is released.
removeSuccessorPastEnd(g, self) ==
  {g} \cup
    {[g EXCEPT !.P[X] = pop_back(swapWithBack(@, findPredecessorImpl(g, X, self))),
               !.S[self] = pop_back(@)] :
       X \in {Y \in Alive(g) : hasPredecessor(g, Y, self)}}

\* The same for removePredecessorImpl(Predecessors.end()): the owning record
\* popped from X's Successors releases its label.
removePredecessorPastEnd(g, self) ==
  {g} \cup
    {LET SuccessorIt == findSuccessorImpl(g, X, self)
     IN  [g EXCEPT !.S[X] = pop_back(swapWithBack(@, SuccessorIt)),
                   !.P[self] = pop_back(@),
                   !.H = free(@, {g.S[X][SuccessorIt].Label})] :
       X \in {Y \in Alive(g) : hasSuccessor(g, Y, self)}}

\* The loop written as for (...; It != end; ++It) It = remove(It): the
\* position after the returned one is the next one visited, and a position
\* past end is read.
RECURSIVE drainSuccessors_advance(_, _, _)
drainSuccessors_advance(g, self, It) ==
  IF It = End(g.S[self])
  THEN Result(g, "ok", It)
  ELSE IF It > End(g.S[self])
  THEN Result(g, "ub", It)
  ELSE LET r == removeSuccessorImpl(g, self, It)
       IN  IF r.st # "ok" THEN r
           ELSE drainSuccessors_advance(r.g, self, r.it + 1)

\* The first loop of disconnect: for (It = begin; It != end;) It = remove(It).
\* An iteration that changes neither the graph nor It repeats forever.
RECURSIVE drainSuccessors(_, _, _)
drainSuccessors(g, self, It) ==
  IF It = End(g.S[self])
  THEN Result(g, "ok", It)
  ELSE LET r == removeSuccessorImpl(g, self, It)
       IN  IF r.st # "ok" THEN r
           ELSE IF r.g = g /\ r.it = It THEN Result(g, "hung", It)
           ELSE drainSuccessors(r.g, self, r.it)

\* The second loop of disconnect.
RECURSIVE drainPredecessors(_, _, _)
drainPredecessors(g, self, It) ==
  IF It = End(g.P[self])
  THEN Result(g, "ok", It)
  ELSE LET r == removePredecessorImpl(g, self, It)
       IN  IF r.st # "ok" THEN r
           ELSE IF r.g = g /\ r.it = It THEN Result(g, "hung", It)
           ELSE drainPredecessors(r.g, self, r.it)

\* A disconnect that drains the successors only.
disconnect_successorsOnly(g, self) == drainSuccessors(g, self, 1)

disconnect(g, self) ==
  LET s == drainSuccessors(g, self, 1)
  IN  IF s.st # "ok" THEN s ELSE drainPredecessors(s.g, self, 1)

\* findNode: the position of NodePtr in Nodes, or end.
findNode(g, NodePtr) ==
  IF \E i \in 1..Len(g.N) : g.N[i] = NodePtr
  THEN CHOOSE i \in 1..Len(g.N) : g.N[i] = NodePtr
  ELSE End(g.N)

hasNode(g, NodePtr) == findNode(g, NodePtr) # End(g.N)

\* ~unique_ptr<NodeT>: the node's vectors go, and the labels its records own.
destroyNode(g, n) ==
  LET owned == {g.S[n][i].Label : i \in 1..Len(g.S[n])}
  IN  [g EXCEPT !.S[n] = <<>>, !.P[n] = <<>>,
                !.H = free(g.H, owned)]

\* Parent::setParent
setParent(g, n, Parent) == [g EXCEPT !.TheParent[n] = Parent]

\* An addNode that leaves the back-reference as it finds it, as it does for
\* a node type without has_parent.
addNode_noParent(g, n) ==
  Result([g EXCEPT !.N = emplace_back(@, n)], "ok", Len(g.N) + 1)

\* addNode: the container takes the new node at the end of Nodes and sets
\* its back-reference to itself.
addNode(g, n) ==
  LET g1 == [g EXCEPT !.N = emplace_back(@, n)]
  IN  Result(setParent(g1, g1.N[Len(g1.N)], "G"), "ok", Len(g1.N))

\* EntryNode::getEntryNode / setEntryNode
getEntryNode(g) == g.EntryNode

setEntryNode(g, n) == Result([g EXCEPT !.EntryNode = n], "ok", 0)

\* A removeNode that erases the node without disconnecting it, as the
\* container does for the other node types.
removeNode_noDisconnect(g, It) ==
  IF It > Len(g.N)
  THEN Result(g, "ub", It)
  ELSE Result([destroyNode(g, g.N[It]) EXCEPT !.N = erase(@, It)], "ok", It)

\* removeNode(nodes_iterator): disconnect, then Nodes.erase.
removeNode(g, It) ==
  IF It > Len(g.N)
  THEN Result(g, "ub", It)
  ELSE LET n == g.N[It]
           d == disconnect(g, n)
       IN  IF d.st # "ok"
           THEN Result(d.g, d.st, It)
           ELSE LET g1 == destroyNode(d.g, n)
                IN  Result([g1 EXCEPT !.N = erase(@, It)], "ok", It)

(***************************************************************************)
(* The state machine: one action per public operation of a graph of        *)
(* MutableEdgeNode.  A call runs while the process does (status is         *)
(* "running"); an operation that aborts leaves status "aborted" and one    *)
(* with undefined behaviour leaves it "ub": nothing runs afterwards.       *)
(* last records the latest call: its name and n, the number of edge        *)
(* records of the receiver the call was about (the records naming the      *)
(* argument for a call by value, all of them for disconnect and            *)
(* removeNode).                                                            *)
(***************************************************************************)
Call(op, n) == [op |-> op, n |-> n]

\* The number of records of v that name node x.
Count(v, x) == Cardinality({i \in 1..Len(v) : v[i].Neighbor = x})

\* The number of edge records node x holds.
Degree(g, x) == Len(g.S[x]) + Len(g.P[x])

StatusOf(st) ==
  CASE st = "ok" -> "running"
    [] st = "abort" -> "aborted"
    [] st = "hung" -> "hung"
    [] OTHER -> "ub"

\* The call returned or stopped with result r.
Commit(r, call) ==
  /\ Nodes' = r.g.N
  /\ Successors' = r.g.S
  /\ Predecessors' = r.g.P
  /\ Heap' = r.g.H
  /\ TheParent' = r.g.TheParent
  /\ EntryNode' = r.g.EntryNode
  /\ status' = StatusOf(r.st)
  /\ last' = call
  /\ UNCHANGED <<IndentLevel, Enabled>>

\* A default-constructed graph.
InitGraph ==
  /\ Constructed = {}
  /\ Nodes = <<>>
  /\ Successors = [n \in NodeIds |-> <<>>]
  /\ Predecessors = [n \in NodeIds |-> <<>>]
  /\ Heap = <<>>
  /\ TheParent = [n \in NodeIds |-> "nullptr"]
  /\ EntryNode = nullptr
  /\ status = "running"
  /\ last = [op |-> "none", n |-> 0]

\* The graph, and a logger that is not enabled: IndentLevel is a static
\* member, zero before the first call.
Init ==
  /\ InitGraph
  /\ IndentLevel = 0
  /\ Enabled = FALSE

\* G.addNode(): a node object that did not exist before.
AddNode ==
  /\ status = "running"
  /\ Cardinality(Constructed) < MaxNodes
  /\ LET n == Cardinality(Constructed) + 1
     IN  /\ Constructed' = Constructed \cup {n}
         /\ Commit(addNode(Graph, n), Call("addNode", 0))

\* A.addSuccessor(B, EL)
AddSuccessor(A, B, EL) ==
  /\ status = "running"
  /\ A \in Alive(Graph) /\ B \in Alive(Graph)
  /\ Cardinality(Live(Heap)) < MaxEdges \/ hasSuccessor(Graph, A, B)
  /\ Commit(addSuccessor(Graph, A, B, EL), Call("addSuccessor", Count(Successors[A], B)))
  /\ UNCHANGED Constructed

\* B.addPredecessor(A, EL)
AddPredecessor(B, A, EL) ==
  /\ status = "running"
  /\ A \in Alive(Graph) /\ B \in Alive(Graph)
  /\ Cardinality(Live(Heap)) < MaxEdges \/ hasPredecessor(Graph, B, A)
  /\ Commit(addPredecessor(Graph, B, A, EL), Call("addPredecessor", Count(Predecessors[B], A)))
  /\ UNCHANGED Constructed

\* A.removeSuccessor(B), by value.  When A has successors and none is B,
\* findSuccessorImpl returns end() and removeSuccessorImpl reads it: the
\* behaviour is undefined, with the outcomes of removeSuccessorPastEnd.
RemoveSuccessor(A, B) ==
  /\ status = "running"
  /\ A \in Alive(Graph) /\ B \in Alive(Graph)
  /\ LET r == removeSuccessor(Graph, A, B)
         call == Call("removeSuccessor", Count(Successors[A], B))
     IN  IF hasSuccessors(Graph, A) /\ ~hasSuccessor(Graph, A, B)
         THEN \E out \in removeSuccessorPastEnd(Graph, A) :
                Commit(Result(out, "ub", r.it), call)
         ELSE Commit(r, call)
  /\ UNCHANGED Constructed

\* B.removePredecessor(A), by value; undefined in the same way when B has
\* predecessors and none is A.
RemovePredecessor(B, A) ==
  /\ status = "running"
  /\ A \in Alive(Graph) /\ B \in Alive(Graph)
  /\ LET r == removePredecessor(Graph, B, A)
         call == Call("removePredecessor", Count(Predecessors[B], A))
     IN  IF hasPredecessors(Graph, B) /\ ~hasPredecessor(Graph, B, A)
         THEN \E out \in removePredecessorPastEnd(Graph, B) :
                Commit(Result(out, "ub", r.it), call)
         ELSE Commit(r, call)
  /\ UNCHANGED Constructed

\* A.removeSuccessor(It) with It an iterator to a record of A
RemoveSuccessorAt(A, It) ==
  /\ status = "running"
  /\ A \in Alive(Graph)
  /\ It \in 1..Len(Successors[A])
  /\ Commit(removeSuccessorImpl(Graph, A, It), Call("removeSuccessorAt", 1))
  /\ UNCHANGED Constructed

\* B.removePredecessor(It) with It an iterator to a record of B
RemovePredecessorAt(B, It) ==
  /\ status = "running"
  /\ B \in Alive(Graph)
  /\ It \in 1..Len(Predecessors[B])
  /\ Commit(removePredecessorImpl(Graph, B, It), Call("removePredecessorAt", 1))
  /\ UNCHANGED Constructed

\* N.disconnect()
Disconnect(N) ==
  /\ status = "running"
  /\ N \in Alive(Graph)
  /\ Commit(disconnect(Graph, N), Call("disconnect", Degree(Graph, N)))
  /\ UNCHANGED Constructed

\* What Nodes.erase(Nodes.end()) leaves behind when nothing stops it: the
\* last node is popped and destroyed, and no disconnect ran on it.
eraseAtEnd(g) ==
  IF g.N = <<>> THEN g
  ELSE [destroyNode(g, g.N[Len(g.N)]) EXCEPT !.N = pop_back(@)]

\* G.removeNode(NodePtr), with any handle the caller may hold.  With a handle
\* that findNode does not find, removeNode dereferences Nodes.end(): the
\* behaviour is undefined, and the process either dies there or goes on to
\* Nodes.erase(Nodes.end()).
RemoveNode(NodePtr) ==
  /\ status = "running"
  /\ NodePtr \in NodeIds
  /\ LET It == findNode(Graph, NodePtr)
         r == removeNode(Graph, It)
         call == Call("removeNode", Degree(Graph, NodePtr))
     IN  IF It = End(Nodes)
         THEN \E out \in {r.g, eraseAtEnd(r.g)} :
                Commit(Result(out, "ub", r.it), call)
         ELSE Commit(r, call)
  /\ UNCHANGED Constructed

\* G.addNode(std::move(*A)): the new node is move-constructed from A.  It
\* takes A's Successors and Predecessors vectors, with the labels they own;
\* A stays in the graph with both vectors empty, and the records of other
\* nodes that named A still name A.
moveNode(g, A, n) ==
  LET g1 == [g EXCEPT !.S[n] = g.S[A], !.S[A] = <<>>,
                      !.P[n] = g.P[A], !.P[A] = <<>>,
                      !.TheParent[n] = g.TheParent[A]]
  IN  addNode(g1, n)

AddNodeMove(A) ==
  /\ status = "running"
  /\ A \in Alive(Graph)
  /\ Cardinality(Constructed) < MaxNodes
  /\ LET n == Cardinality(Constructed) + 1
     IN  /\ Constructed' = Constructed \cup {n}
         /\ Commit(moveNode(Graph, A, n), Call("addNodeMove", Degree(Graph, A)))

Next ==
  \/ AddNode
  \/ \E A, B \in NodeIds, EL \in LabelValues : AddSuccessor(A, B, EL)
  \/ \E A, B \in NodeIds, EL \in LabelValues : AddPredecessor(B, A, EL)
  \/ \E A, B \in NodeIds : RemoveSuccessor(A, B)
  \/ \E A, B \in NodeIds : RemovePredecessor(B, A)
  \/ \E A \in NodeIds : \E It \in 1..Len(Successors[A]) : RemoveSuccessorAt(A, It)
  \/ \E B \in NodeIds : \E It \in 1..Len(Predecessors[B]) : RemovePredecessorAt(B, It)
  \/ \E N \in NodeIds : Disconnect(N)
  \/ \E NodePtr \in NodeIds : RemoveNode(NodePtr)

\* The graph built and changed through the operations of the node and
\* graph API alone.
Spec == Init /\ [][Next]_vars

\* The same, with nodes that are also move-constructed from nodes of the graph.
NextMove == Next \/ \E A \in NodeIds : AddNodeMove(A)

SpecMove == Init /\ [][NextMove]_vars

(***************************************************************************)
(* The node types without shared labels.  A graph of ForwardNode uses      *)
(* Successors alone, a graph of BidirectionalNode both vectors; a record   *)
(* is an Edge, the label held by value next to the Neighbor pointer, and   *)
(* Heap stays empty.  None of these operations looks at the neighbor's     *)
(* vectors.                                                                *)
(***************************************************************************)
\* EdgeLabel{}: the label of the overloads that take no label.
DefaultLabel == "{}"

\* Edge(Neighbor, EL)
Edge(Neighbor, EL) == [Neighbor |-> Neighbor, Label |-> EL]

\* ForwardNode::addSuccessor
ForwardNode_addSuccessor(g, self, NewSuccessor, EL) ==
  LET S1 == [g.S EXCEPT ![self] = emplace_back(@, Edge(NewSuccessor, EL))]
  IN  Result([g EXCEPT !.S = S1], "ok", Len(S1[self]))

\* A removeSuccessor that swaps the record with the last one and pops it, as
\* MutableEdgeNode removes.
ForwardNode_removeSuccessor_swapPop(g, self, It) ==
  IF It > Len(g.S[self])
  THEN Result(g, "ub", It)
  ELSE Result([g EXCEPT !.S[self] = pop_back(swapWithBack(@, It))], "ok", It)

\* ForwardNode::removeSuccessor / removeSuccessorEdge: Successors.erase(It).
ForwardNode_removeSuccessor(g, self, It) ==
  IF It > Len(g.S[self])
  THEN Result(g, "ub", It)
  ELSE Result([g EXCEPT !.S[self] = erase(@, It)], "ok", It)

\* The loop for (It = begin; It != end;) It = removeSuccessor(It) over the
\* successors of a ForwardNode.
RECURSIVE ForwardNode_drainSuccessors(_, _, _)
ForwardNode_drainSuccessors(g, self, It) ==
  IF It = End(g.S[self])
  THEN Result(g, "ok", It)
  ELSE LET r == ForwardNode_removeSuccessor(g, self, It)
       IN  IF r.st # "ok" THEN r
           ELSE IF r.g = g /\ r.it = It THEN Result(g, "hung", It)
           ELSE ForwardNode_drainSuccessors(r.g, self, r.it)

\* An addSuccessor whose mirrored record is built without the label, as the
\* overload that takes no label builds it.
BidirectionalNode_addSuccessor_noLabel(g, self, NewSuccessor, EL) ==
  LET b == ForwardNode_addSuccessor(g, self, NewSuccessor, EL)
      P1 == [b.g.P EXCEPT ![NewSuccessor] =
               emplace_back(@, Edge(self, DefaultLabel))]
  IN  Result([b.g EXCEPT !.P = P1], "ok", b.it)

\* BidirectionalNode::addSuccessor
BidirectionalNode_addSuccessor(g, self, NewSuccessor, EL) ==
  LET b == ForwardNode_addSuccessor(g, self, NewSuccessor, EL)
      P1 == [b.g.P EXCEPT ![NewSuccessor] = emplace_back(@, Edge(self, EL))]
  IN  Result([b.g EXCEPT !.P = P1], "ok", b.it)

\* BidirectionalNode::addPredecessor: the record goes into Predecessors, and
\* then NewPredecessor->addSuccessor(this, EL) runs
\* BidirectionalNode::addSuccessor.
BidirectionalNode_addPredecessor(g, self, NewPredecessor, EL) ==
  LET P1 == [g.P EXCEPT ![self] = emplace_back(@, Edge(NewPredecessor, EL))]
  IN  BidirectionalNode_addSuccessor([g EXCEPT !.P = P1], NewPredecessor, self, EL)

\* A removePredecessor that erases the mirrored record of the neighbor as well.
BidirectionalNode_removePredecessor_mirrored(g, self, It) ==
  IF It > Len(g.P[self])
  THEN Result(g, "ub", It)
  ELSE LET A == g.P[self][It].Neighbor
           S1 == [g.S EXCEPT ![A] = erase(@, findNeighbor(@, self))]
       IN  Result([g EXCEPT !.P[self] = erase(@, It), !.S = S1], "ok", It)

\* BidirectionalNode::removePredecessor / removePredecessorEdge
BidirectionalNode_removePredecessor(g, self, It) ==
  IF It > Len(g.P[self])
  THEN Result(g, "ub", It)
  ELSE Result([g EXCEPT !.P[self] = erase(@, It)], "ok", It)

\* ~unique_ptr<NodeT> of a by-value node: its vectors go with their labels.
destroyEdges(g, n) == [g EXCEPT !.S[n] = <<>>, !.P[n] = <<>>]

\* A removeNode that disconnects the node first, as it does for a
\* MutableEdgeNode.
removeNodeNonMutable_disconnect(g, It) == removeNode(g, It)

\* removeNode(nodes_iterator) when IsMutableEdgeNode<Node> is false.
removeNodeNonMutable(g, It) ==
  IF It > Len(g.N)
  THEN Result(g, "ub", It)
  ELSE Result([destroyEdges(g, g.N[It]) EXCEPT !.N = erase(@, It)], "ok", It)

\* The number of records in the vectors v of all nodes.
RECURSIVE Records(_, _)
Records(v, n) == IF n = 0 THEN 0 ELSE Len(v[n]) + Records(v, n - 1)

\* A.addSuccessor(B, EL) on a ForwardNode
ForwardAddSuccessor(A, B, EL) ==
  /\ status = "running"
  /\ A \in Alive(Graph) /\ B \in Alive(Graph)
  /\ Records(Successors, MaxNodes) <= MaxEdges
  /\ Commit(ForwardNode_addSuccessor(Graph, A, B, EL),
            Call("addSuccessor", Len(Successors[A])))
  /\ UNCHANGED Constructed

\* A.removeSuccessor(It) with It an iterator to a record of A
ForwardRemoveSuccessor(A, It) ==
  /\ status = "running"
  /\ A \in Alive(Graph)
  /\ It \in 1..Len(Successors[A])
  /\ Commit(ForwardNode_removeSuccessor(Graph, A, It), Call("removeSuccessor", It))
  /\ UNCHANGED Constructed

\* A.addSuccessor(B, EL) on a BidirectionalNode
BidirectionalAddSuccessor(A, B, EL) ==
  /\ status = "running"
  /\ A \in Alive(Graph) /\ B \in Alive(Graph)
  /\ Records(Successors, MaxNodes) + Records(Predecessors, MaxNodes) < MaxEdges
  /\ Commit(BidirectionalNode_addSuccessor(Graph, A, B, EL),
            Call("addSuccessor", Len(Successors[A])))
  /\ UNCHANGED Constructed

\* B.addPredecessor(A, EL) on a BidirectionalNode
BidirectionalAddPredecessor(B, A, EL) ==
  /\ status = "running"
  /\ A \in Alive(Graph) /\ B \in Alive(Graph)
  /\ Records(Successors, MaxNodes) + Records(Predecessors, MaxNodes) < MaxEdges
  /\ Commit(BidirectionalNode_addPredecessor(Graph, B, A, EL),
            Call("addPredecessor", Len(Predecessors[B])))
  /\ UNCHANGED Constructed

\* B.removePredecessor(It) with It an iterator to a record of B
BidirectionalRemovePredecessor(B, It) ==
  /\ status = "running"
  /\ B \in Alive(Graph)
  /\ It \in 1..Len(Predecessors[B])
  /\ Commit(BidirectionalNode_removePredecessor(Graph, B, It),
            Call("removePredecessor", It))
  /\ UNCHANGED Constructed

\* G.removeNode(NodePtr) on a graph of ForwardNode or BidirectionalNode, with
\* any handle the caller may hold; a handle findNode does not find is
\* undefined behaviour as in RemoveNode.
RemoveNodeNonMutable(NodePtr) ==
  /\ status = "running"
  /\ NodePtr \in NodeIds
  /\ LET It == findNode(Graph, NodePtr)
         r == removeNodeNonMutable(Graph, It)
         call == Call("removeNode", Degree(Graph, NodePtr))
     IN  IF It = End(Nodes)
         THEN \E out \in {r.g, eraseAtEnd(r.g)} :
                Commit(Result(out, "ub", r.it), call)
         ELSE Commit(r, call)
  /\ UNCHANGED Constructed

NextForward ==
  \/ AddNode
  \/ \E A, B \in NodeIds, EL \in LabelValues : ForwardAddSuccessor(A, B, EL)
  \/ \E A \in NodeIds : \E It \in 1..Len(Successors[A]) : ForwardRemoveSuccessor(A, It)
  \/ \E NodePtr \in NodeIds : RemoveNodeNonMutable(NodePtr)

\* A graph of ForwardNode.
SpecForward == Init /\ [][NextForward]_vars

NextBidirectional ==
  \/ AddNode
  \/ \E A, B \in NodeIds, EL \in LabelValues : BidirectionalAddSuccessor(A, B, EL)
  \/ \E A, B \in NodeIds, EL \in LabelValues : BidirectionalAddPredecessor(B, A, EL)
  \/ \E A \in NodeIds : \E It \in 1..Len(Successors[A]) : ForwardRemoveSuccessor(A, It)
  \/ \E B \in NodeIds : \E It \in 1..Len(Predecessors[B]) :
       BidirectionalRemovePredecessor(B, It)
  \/ \E NodePtr \in NodeIds : RemoveNodeNonMutable(NodePtr)

\* A graph of BidirectionalNode.
SpecBidirectional == Init /\ [][NextBidirectional]_vars

\* The node type of the graph, as far as its state tells: records that own
\* no label allocation are records of ForwardNode, and as many owned labels
\* as successor records are the records of MutableEdgeNode.  A graph without
\* edges is the same for both.
IsForward == Live(Heap) = {}

IsMutableEdge == Records(Successors, MaxNodes) = Cardinality(Live(Heap))

NextEither ==
  \/ IsForward /\ NextForward
  \/ IsMutableEdge /\ Next

\* A graph of ForwardNode or of MutableEdgeNode.
SpecEither == Init /\ [][NextEither]_vars

(***************************************************************************)
(* The container's own state: the entry node and the back-references.      *)
(***************************************************************************)
\* The back-reference a node built by the caller may hold before the graph
\* takes it: none, or another graph.
Parents == {"nullptr", "Other"}

\* G.addNode(std::move(Ptr)): the graph takes a node the caller built.
AddNodeOwned(Parent) ==
  /\ status = "running"
  /\ Cardinality(Constructed) < MaxNodes
  /\ LET n == Cardinality(Constructed) + 1
     IN  /\ Constructed' = Constructed \cup {n}
         /\ Commit(addNode(setParent(Graph, n, Parent), n), Call("addNodeOwned", 0))

\* G.setEntryNode(N) with N a node of G, or null
SetEntryNode(N) ==
  /\ status = "running"
  /\ N \in Alive(Graph) \cup {nullptr}
  /\ Commit(setEntryNode(Graph, N), Call("setEntryNode", 0))
  /\ UNCHANGED Constructed

NextContainer ==
  \/ AddNode
  \/ \E Parent \in Parents : AddNodeOwned(Parent)
  \/ \E N \in NodeIds \cup {nullptr} : SetEntryNode(N)
  \/ \E A, B \in NodeIds, EL \in LabelValues : AddSuccessor(A, B, EL)
  \/ \E NodePtr \in NodeIds : RemoveNode(NodePtr)

\* A graph of MutableEdgeNode with its entry node.
SpecContainer == Init /\ [][NextContainer]_vars

(***************************************************************************)
(* llvm::GraphTraits for the node types and for GenericGraph.  An iterator *)
(* is a position in the vector it walks; dereferencing a child iterator    *)
(* applies the Neighbor filter to the record at that position.             *)
(***************************************************************************)
\* GraphTraits<T *>::child_begin / child_end: N->successors().begin() / end()
child_begin(g, N) == 1

child_end(g, N) == End(g.S[N])

\* The children a generic algorithm sees, walking from child_begin to child_end.
children(g, N) ==
  [i \in 1..(child_end(g, N) - child_begin(g, N)) |->
     g.S[N][child_begin(g, N) + i - 1].Neighbor]

\* GraphTraits<Inverse<T *>>::child_begin / child_end:
\* N->predecessors().begin() / end()
Inverse_child_begin(g, N) == 1

Inverse_child_end(g, N) == End(g.P[N])

\* Inverse traits that walk the successors.
Inverse_children_forward(g, N) == children(g, N)

\* The children a generic algorithm sees through llvm::Inverse.
Inverse_children(g, N) ==
  [i \in 1..(Inverse_child_end(g, N) - Inverse_child_begin(g, N)) |->
     g.P[N][Inverse_child_begin(g, N) + i - 1].Neighbor]

\* GraphTraits<GenericGraph *>: nodes_begin / nodes_end, size, getEntryNode
nodes_begin(g) == 1

nodes_end(g) == End(g.N)

GraphTraits_nodes(g) ==
  [i \in 1..(nodes_end(g) - nodes_begin(g)) |-> g.N[nodes_begin(g) + i - 1]]

GraphTraits_size(g) == Len(g.N)

GraphTraits_getEntryNode(g) == getEntryNode(g)

\* The operations of Spec, with the entry node set as well.
NextTraversal == Next \/ \E N \in NodeIds \cup {nullptr} : SetEntryNode(N)

SpecTraversal == Init /\ [][NextTraversal]_vars

(***************************************************************************)
(* Reading and writing a label through an edge: EdgeView holds a reference *)
(* to the label the record points to.                                      *)
(***************************************************************************)
\* EdgeView(E).Label read: the value of the allocation the record points to.
EdgeView_Label(g, E) == g.H[E.Label]

\* An assignment to EdgeView(E).Label.
EdgeView_setLabel(g, E, EL) ==
  IF E.Label \in Live(g.H)
  THEN Result([g EXCEPT !.H[E.Label] = EL], "ok", 0)
  ELSE Result(g, "ub", 0)

\* The values a caller writes into a label.
WrittenLabels == LabelValues \cup {DefaultLabel}

\* An assignment to the label of the edge at It in A.successor_edges()
WriteSuccessorLabel(A, It, EL) ==
  /\ status = "running"
  /\ A \in Alive(Graph)
  /\ It \in 1..Len(Successors[A])
  /\ Commit(EdgeView_setLabel(Graph, Successors[A][It], EL),
            Call("writeSuccessorLabel", It))
  /\ UNCHANGED Constructed

\* An assignment to the label of the edge at It in B.predecessor_edges()
WritePredecessorLabel(B, It, EL) ==
  /\ status = "running"
  /\ B \in Alive(Graph)
  /\ It \in 1..Len(Predecessors[B])
  /\ Commit(EdgeView_setLabel(Graph, Predecessors[B][It], EL),
            Call("writePredecessorLabel", It))
  /\ UNCHANGED Constructed

\* The operations of Spec, with labels written through the edges.
NextLabel ==
  \/ Next
  \/ \E A \in NodeIds : \E It \in 1..Len(Successors[A]) :
       \E EL \in WrittenLabels : WriteSuccessorLabel(A, It, EL)
  \/ \E B \in NodeIds : \E It \in 1..Len(Predecessors[B]) :
       \E EL \in WrittenLabels : WritePredecessorLabel(B, It, EL)

SpecLabel == Init /\ [][NextLabel]_vars

(***************************************************************************)
(* Logger: the indentation level.  IndentLevel is an unsigned; the model   *)
(* keeps its arithmetic, modulo 2^UnsignedBits, on a narrower word.        *)
(***************************************************************************)
\* The width of unsigned in the model.
UnsignedBits == 4
\* The largest Level a caller passes.
MaxLevel == 3

UnsignedMax == 2 ^ UnsignedBits - 1

\* unsigned arithmetic: the result modulo 2^UnsignedBits.
unsignedAdd(a, b) == (a + b) % (UnsignedMax + 1)

unsignedSub(a, b) == (a - b) % (UnsignedMax + 1)

\* isEnabled()
isEnabled == Enabled

\* Logger::indent: IndentLevel += Level.
indent(I, Level) == [I |-> unsignedAdd(I, Level), st |-> "ok"]

\* Logger::unindent: revng_assert(IndentLevel - Level >= 0), the difference
\* being an unsigned; then IndentLevel -= Level.
unindent(I, Level) ==
  IF ~(unsignedSub(I, Level) >= 0)
  THEN [I |-> I, st |-> "abort"]
  ELSE [I |-> unsignedSub(I, Level), st |-> "ok"]

\* Logger::setIndentation: IndentLevel = Level.
setIndentation(I, Level) == [I |-> Level, st |-> "ok"]

\* A call on the logger returned or stopped with result r; the graph is not
\* touched.
CommitLogger(r, call) ==
  /\ IndentLevel' = (IF isEnabled THEN r.I ELSE IndentLevel)
  /\ status' = (IF isEnabled THEN StatusOf(r.st) ELSE status)
  /\ last' = call
  /\ UNCHANGED <<Constructed, Nodes, Successors, Predecessors, Heap,
                 TheParent, EntryNode, Enabled>>

\* Log.indent(Level)
Indent(Level) ==
  /\ status = "running"
  /\ CommitLogger(indent(IndentLevel, Level), Call("indent", Level))

\* Log.unindent(Level)
Unindent(Level) ==
  /\ status = "running"
  /\ CommitLogger(unindent(IndentLevel, Level), Call("unindent", Level))

\* Log.setIndentation(Level)
SetIndentation(Level) ==
  /\ status = "running"
  /\ CommitLogger(setIndentation(IndentLevel, Level), Call("setIndentation", Level))

\* A logger that the command line has enabled or not.
InitLogger ==
  /\ InitGraph
  /\ IndentLevel = 0
  /\ Enabled \in BOOLEAN

NextLogger ==
  \/ \E Level \in 0..MaxLevel : Indent(Level)
  \/ \E Level \in 0..MaxLevel : Unindent(Level)
  \/ \E Level \in 0..MaxLevel : SetIndentation(Level)

SpecLogger == InitLogger /\ [][NextLogger]_vars

(***************************************************************************)
(* Properties.  A call with undefined behaviour ends the run in status     *)
(* "ub"; what the graph then holds is one of the outcomes a build can      *)
(* produce, and the properties of well-formed runs are stated for the      *)
(* states in which no such call has happened.                              *)
(***************************************************************************)
Defined == status # "ub"

\* The step is a call of the operation named op.
Called(op) == last'.op = op

\* Node x lists N in one of its two vectors.
Lists(g, x, N) == Count(g.S[x], N) > 0 \/ Count(g.P[x], N) > 0

\* successors() / predecessors(): the neighbors the records name, from
\* begin() to end().
successors(g, self) == [i \in 1..Len(g.S[self]) |-> g.S[self][i].Neighbor]

predecessors(g, self) == [i \in 1..Len(g.P[self]) |-> g.P[self][i].Neighbor]

\* The label read through self's successor record for s, and through self's
\* predecessor record for p.
successorLabel(g, self, s) == g.S[self][findSuccessorImpl(g, self, s)].Label

predecessorLabel(g, self, p) == g.P[self][findPredecessorImpl(g, self, p)].Label

\* C1: every edge has both halves: for all nodes A and B, A's Successors
\* hold as many records naming B as B's Predecessors hold records naming A.
C1_BothHalves ==
  Defined =>
    \A A, B \in NodeIds : Count(Successors[A], B) = Count(Predecessors[B], A)

\* C1 witness: after a removal, an edge between two nodes is still there
\* with both of its halves.
C1_Witness ==
  /\ status = "running"
  /\ last.op \in {"removeSuccessor", "removePredecessor", "removeSuccessorAt",
                "removePredecessorAt", "disconnect", "removeNode"}
  /\ last.n > 0
  /\ \E A, B \in NodeIds :
       A # B /\ Count(Successors[A], B) = 1 /\ Count(Predecessors[B], A) = 1

\* C2: at most one edge per ordered pair: no Successors vector and no
\* Predecessors vector names the same neighbor twice.
C2_OneEdgePerPair ==
  Defined =>
    \A A, B \in NodeIds :
      Count(Successors[A], B) <= 1 /\ Count(Predecessors[A], B) <= 1

\* C2 witness: an edge was just added to a node that already had a successor,
\* and a node has two predecessors or two successors.
C2_Witness ==
  /\ status = "running"
  /\ last.op \in {"addSuccessor", "addPredecessor"}
  /\ \E A \in NodeIds : Len(Successors[A]) = 2 \/ Len(Predecessors[A]) = 2

\* C3: when A has no edge to B, A.addSuccessor(B, EL) returns with
\* A.hasSuccessor(B) and B.hasPredecessor(A) true, and the label read through
\* A's successor record and through B's predecessor record is one live
\* allocation, holding EL.
C3_AddSuccessorMirrored ==
  [][Called("addSuccessor") => \A A, B \in NodeIds, EL \in LabelValues :
       (AddSuccessor(A, B, EL) /\ ~hasSuccessor(Graph, A, B)) =>
         /\ status' = "running"
         /\ hasSuccessor(Graph', A, B)
         /\ hasPredecessor(Graph', B, A)
         /\ successorLabel(Graph', A, B) = predecessorLabel(Graph', B, A)
         /\ successorLabel(Graph', A, B) \in Live(Heap')
         /\ successorLabel(Graph', A, B) \notin Live(Heap)
         /\ Heap'[successorLabel(Graph', A, B)] = EL]_vars

\* C3 witness: addSuccessor has returned and left a self-loop and an edge
\* between two nodes behind it.
C3_Witness ==
  /\ status = "running"
  /\ last.op = "addSuccessor"
  /\ last.n = 0
  /\ \E A, B \in NodeIds :
       A # B /\ hasSuccessor(Graph, A, B) /\ hasSuccessor(Graph, B, B)

\* C4: when the edge A -> B exists, A.addSuccessor(B, EL) and
\* B.addPredecessor(A, EL) abort, and at the abort the node list, every
\* vector and every label are as they were before the call.
C4_DuplicateRejected ==
  [][(Called("addSuccessor") \/ Called("addPredecessor")) =>
     \A A, B \in NodeIds, EL \in LabelValues :
       ((AddSuccessor(A, B, EL) \/ AddPredecessor(B, A, EL))
          /\ hasSuccessor(Graph, A, B)) =>
         (status' = "aborted" /\ Graph' = Graph)]_vars

\* C4 witness: addSuccessor aborted on an edge that was there, in a graph
\* that holds another edge as well.
C4_Witness ==
  /\ status = "aborted"
  /\ last.op = "addSuccessor"
  /\ last.n = 1
  /\ Cardinality(Live(Heap)) = 2

\* C5: when the edge A -> B exists (A = B included), A.removeSuccessor(B)
\* returns with A.hasSuccessor(B) and B.hasPredecessor(A) false, and
\* A.successorCount() and B.predecessorCount() each one less than before.
C5_RemovalSymmetry ==
  [][Called("removeSuccessor") => \A A, B \in NodeIds :
       (RemoveSuccessor(A, B) /\ hasSuccessor(Graph, A, B)) =>
         /\ status' = "running"
         /\ ~hasSuccessor(Graph', A, B)
         /\ ~hasPredecessor(Graph', B, A)
         /\ successorCount(Graph', A) = successorCount(Graph, A) - 1
         /\ predecessorCount(Graph', B) = predecessorCount(Graph, B) - 1]_vars

\* C5 witness: removeSuccessor removed an edge of a node that keeps another
\* successor.
C5_Witness ==
  /\ status = "running"
  /\ last.op = "removeSuccessor"
  /\ last.n = 1
  /\ \E A \in NodeIds : Len(Successors[A]) = 1 /\ Len(Predecessors[A]) = 0

\* C6: N.disconnect() returns with N.hasSuccessors() and N.hasPredecessors()
\* false, no node listing N as a successor or as a predecessor, and N still
\* in the graph's nodes.
C6_DisconnectComplete ==
  [][Called("disconnect") => \A N \in NodeIds :
       Disconnect(N) =>
         /\ status' = "running"
         /\ ~hasSuccessors(Graph', N)
         /\ ~hasPredecessors(Graph', N)
         /\ \A x \in NodeIds : ~Lists(Graph', x, N)
         /\ hasNode(Graph', N)
         /\ Nodes' = Nodes]_vars

\* C6 witness: disconnect has returned on a node that had a self-loop and an
\* edge with another node (three records or more).
C6_Witness ==
  /\ status = "running"
  /\ last.op = "disconnect"
  /\ last.n >= 3

\* C7: G.removeNode(N) on a node of G returns with N out of the graph and no
\* remaining node holding a successor or predecessor record that names N.
C7_CascadingRemoval ==
  [][Called("removeNode") => \A N \in NodeIds :
       (RemoveNode(N) /\ hasNode(Graph, N)) =>
         /\ status' = "running"
         /\ ~hasNode(Graph', N)
         /\ \A x \in NodeIds : ~Lists(Graph', x, N)]_vars

\* C7 witness: with A -> B and B -> C, removeNode(B) has returned:
\* A.successorCount() and C.predecessorCount() are 0.
C7_Witness ==
  /\ status = "running"
  /\ last.op = "removeNode"
  /\ last.n = 2
  /\ Len(Nodes) = 2
  /\ successorCount(Graph, Nodes[1]) = 0
  /\ predecessorCount(Graph, Nodes[2]) = 0

\* C8: a node added to G stays in G.nodes() until removeNode is called on
\* it, whatever else is added or removed; removeNode(N) takes N out and no
\* other node; a node that was removed is never in G.nodes() again.
C8_Ownership ==
  [][status' # "ub" =>
       \A N \in NodeIds :
         /\ (hasNode(Graph, N) /\ ~hasNode(Graph', N)) => RemoveNode(N)
         /\ (Called("removeNode") /\ RemoveNode(N) /\ hasNode(Graph, N)) =>
              Alive(Graph') = Alive(Graph) \ {N}
         /\ (N \in Constructed /\ ~hasNode(Graph, N)) => ~hasNode(Graph', N)
         /\ (N \notin Constructed /\ hasNode(Graph', N)) =>
              (AddNode /\ Alive(Graph') = Alive(Graph) \cup {N})]_vars

\* C8 witness: a node has been removed, another was added after it, and
\* the nodes added before the removed one are still there.
C8_Witness ==
  /\ status = "running"
  /\ last.op = "addNode"
  /\ Constructed = {1, 2, 3}
  /\ Nodes = <<1, 3>>

\* C9: removing a successor record whose mirrored predecessor record is
\* missing aborts, whatever the neighbor's Predecessors hold; and the same
\* for a predecessor record whose successor half is missing.
C9_MissingHalfAborts ==
  [][/\ \A A \in NodeIds : \A It \in 1..Len(Successors[A]) :
          LET B == Successors[A][It].Neighbor
          IN  (RemoveSuccessorAt(A, It) /\ hasNode(Graph, B)
                 /\ ~hasPredecessor(Graph, B, A)) => status' = "aborted"
     /\ \A B \in NodeIds : \A It \in 1..Len(Predecessors[B]) :
          LET A == Predecessors[B][It].Neighbor
          IN  (RemovePredecessorAt(B, It) /\ hasNode(Graph, A)
                 /\ ~hasSuccessor(Graph, A, B)) => status' = "aborted"]_vars

\* C10: G.removeNode(H) with a handle H that G does not own aborts, and at
\* the abort the node list, every vector and every label are unchanged.
C10_StaleHandleAborts ==
  [][\A H \in NodeIds :
       (RemoveNode(H) /\ ~hasNode(Graph, H)) =>
         (status' = "aborted" /\ Graph' = Graph)]_vars

\* C11: B.addPredecessor(A, EL) is the mirror of A.addSuccessor(B, EL): in
\* every reachable state and for all nodes A and B of the graph, one aborts
\* exactly when the other does, and otherwise both leave the same graph: A's
\* Successors with an owning record (B, label) appended, B's Predecessors
\* with a record (A, the same label) appended, the label holding EL.
C11_AddPredecessorMirror ==
  Defined =>
    \A A, B \in Alive(Graph), EL \in LabelValues :
      LET p == addPredecessor(Graph, B, A, EL)
          s == addSuccessor(Graph, A, B, EL)
      IN  /\ (p.st = "abort") <=> (s.st = "abort")
          /\ p.st # "abort" =>
               /\ p.st = "ok" /\ s.st = "ok"
               /\ p.g = s.g
               /\ \E l \in Live(p.g.H) \ Live(Heap) :
                    /\ p.g.H[l] = EL
                    /\ p.g.S[A] = Append(Successors[A],
                                         [Neighbor |-> B, Label |-> l])
                    /\ p.g.P[B] = Append(Predecessors[B],
                                         [Neighbor |-> A, Label |-> l])

\* C11 witness: addPredecessor has returned on a node that had a predecessor
\* already, and the new record is the last of its Predecessors.
C11_Witness ==
  /\ status = "running"
  /\ last.op = "addPredecessor"
  /\ last.n = 0
  /\ \E B \in NodeIds : Len(Predecessors[B]) = 2

\* C12: A.addSuccessor(B, EL) on a BidirectionalNode appends one record
\* (B, EL) at the end of A's Successors and one record (A, EL), the label
\* copied, at the end of B's Predecessors: A.successorCount() and
\* B.predecessorCount() each grow by one, and nothing else changes.
C12_BidirectionalAddSuccessor ==
  [][Called("addSuccessor") => \A A, B \in NodeIds, EL \in LabelValues :
       BidirectionalAddSuccessor(A, B, EL) =>
         /\ status' = "running"
         /\ Successors'[A] = Append(Successors[A], Edge(B, EL))
         /\ Predecessors'[B] = Append(Predecessors[B], Edge(A, EL))
         /\ successorCount(Graph', A) = successorCount(Graph, A) + 1
         /\ predecessorCount(Graph', B) = predecessorCount(Graph, B) + 1
         /\ \A x \in NodeIds \ {A} : Successors'[x] = Successors[x]
         /\ \A x \in NodeIds \ {B} : Predecessors'[x] = Predecessors[x]
         /\ Nodes' = Nodes]_vars

\* C12 witness: addSuccessor has returned on a node that had a successor
\* already; the new record is the second of its Successors and the mirrored
\* record is in the target's Predecessors.
C12_Witness ==
  /\ status = "running"
  /\ last.op = "addSuccessor"
  /\ last.n = 1
  /\ \E A, B \in NodeIds :
       A # B /\ Len(Successors[A]) = 2 /\ Successors[A][2].Neighbor = B
            /\ Len(Predecessors[B]) = 1 /\ Predecessors[B][1].Neighbor = A

\* C13: B.addPredecessor(A, EL) on a BidirectionalNode leaves the graph as
\* A.addSuccessor(B, EL) would: B.predecessorCount() and A.successorCount()
\* each grow by one, B gaining one predecessor record naming A and A one
\* successor record naming B.
C13_BidirectionalAddPredecessor ==
  [][Called("addPredecessor") => \A A, B \in NodeIds, EL \in LabelValues :
       BidirectionalAddPredecessor(B, A, EL) =>
         /\ status' = "running"
         /\ Graph' = BidirectionalNode_addSuccessor(Graph, A, B, EL).g
         /\ predecessorCount(Graph', B) = predecessorCount(Graph, B) + 1
         /\ successorCount(Graph', A) = successorCount(Graph, A) + 1
         /\ Count(Predecessors'[B], A) = Count(Predecessors[B], A) + 1
         /\ Count(Successors'[A], B) = Count(Successors[A], B) + 1]_vars

\* C14: the removals of BidirectionalNode act on one side: A.removeSuccessor(It)
\* changes A's Successors and nothing else, B.removePredecessor(It) changes
\* B's Predecessors and nothing else; every other vector is as before, so
\* the mirrored record of the far endpoint is still there.
C14_OneSidedRemoval ==
  [][(Called("removeSuccessor") \/ Called("removePredecessor")) =>
     /\ \A A \in NodeIds : \A It \in 1..Len(Successors[A]) :
          ForwardRemoveSuccessor(A, It) =>
            /\ status' = "running"
            /\ Len(Successors'[A]) = Len(Successors[A]) - 1
            /\ \A x \in NodeIds \ {A} : Successors'[x] = Successors[x]
            /\ Predecessors' = Predecessors
            /\ Nodes' = Nodes
            /\ LET B == Successors[A][It].Neighbor
               IN  Count(Predecessors'[B], A) = Count(Predecessors[B], A)
     /\ \A B \in NodeIds : \A It \in 1..Len(Predecessors[B]) :
          BidirectionalRemovePredecessor(B, It) =>
            /\ status' = "running"
            /\ Len(Predecessors'[B]) = Len(Predecessors[B]) - 1
            /\ \A x \in NodeIds \ {B} : Predecessors'[x] = Predecessors[x]
            /\ Successors' = Successors
            /\ Nodes' = Nodes
            /\ LET A == Predecessors[B][It].Neighbor
               IN  Count(Successors'[A], B) = Count(Successors[A], B)]_vars

\* C14 witness: removePredecessor has returned, and a node of the graph
\* still holds a successor record for a node of the graph that has no
\* predecessor record left.
C14_Witness ==
  /\ status = "running"
  /\ last.op = "removePredecessor"
  /\ \E A, B \in Alive(Graph) :
       /\ A # B
       /\ Predecessors[B] = <<>>
       /\ Count(Successors[A], B) = 1

\* C15: on a graph of ForwardNode or BidirectionalNode, G.removeNode(N) on a
\* node of G takes N out and leaves the Successors and Predecessors of every
\* remaining node as they were: a record that named N still names N.
C15_RemoveNodeLeavesEdges ==
  [][Called("removeNode") => \A N \in NodeIds :
       (RemoveNodeNonMutable(N) /\ hasNode(Graph, N)) =>
         /\ status' = "running"
         /\ Alive(Graph') = Alive(Graph) \ {N}
         /\ \A x \in Alive(Graph') :
              /\ Successors'[x] = Successors[x]
              /\ Predecessors'[x] = Predecessors[x]
              /\ Count(Successors'[x], N) = Count(Successors[x], N)
              /\ Count(Predecessors'[x], N) = Count(Predecessors[x], N)]_vars

\* C15 witness: removeNode has returned on a node that had edge records, and
\* a remaining node holds a successor record and another a predecessor
\* record naming a node that is no longer in the graph.
C15_Witness ==
  /\ status = "running"
  /\ last.op = "removeNode"
  /\ last.n > 0
  /\ \E x, y \in Alive(Graph), N \in Constructed \ Alive(Graph) :
       Count(Successors[x], N) > 0 /\ Count(Predecessors[y], N) > 0

\* C16: a ForwardNode keeps its successors in insertion order:
\* A.addSuccessor(B, EL) puts B at the end of A.successors(), and
\* A.removeSuccessor(It) takes out the record at It, the records before It
\* staying in place and the records after It moving down by one in order.
\* No call changes the successors of another node.
C16_ForwardOrdering ==
  [][(Called("addSuccessor") \/ Called("removeSuccessor")) =>
     /\ \A A, B \in NodeIds, EL \in LabelValues :
          ForwardAddSuccessor(A, B, EL) =>
            /\ status' = "running"
            /\ successors(Graph', A) = Append(successors(Graph, A), B)
            /\ Successors'[A] = Append(Successors[A], Edge(B, EL))
            /\ \A x \in NodeIds \ {A} : Successors'[x] = Successors[x]
     /\ \A A \in NodeIds : \A It \in 1..Len(Successors[A]) :
          ForwardRemoveSuccessor(A, It) =>
            /\ status' = "running"
            /\ Len(Successors'[A]) = Len(Successors[A]) - 1
            /\ \A j \in 1..Len(Successors'[A]) :
                 Successors'[A][j] =
                   IF j < It THEN Successors[A][j] ELSE Successors[A][j + 1]
            /\ \A x \in NodeIds \ {A} : Successors'[x] = Successors[x]]_vars

\* C16 witness: a node had successors {B, C, D} added in this order, and
\* removeSuccessor(iterator to B) has left C and then D.
C16_Witness ==
  /\ status = "running"
  /\ last.op = "removeSuccessor"
  /\ last.n = 1
  /\ \E A \in Alive(Graph) : successors(Graph, A) = <<2, 3>>

\* C17: whenever G.getEntryNode() is not null, it is a node of G.nodes().
C17_EntryNodeValid ==
  Defined =>
    (getEntryNode(Graph) # nullptr => hasNode(Graph, getEntryNode(Graph)))

\* C18: G.addNode, constructing the node or taking one the caller built,
\* makes G.size() one larger, returns the new node, which is the last of
\* G.nodes(), and keeps the nodes G had in their places; and after every
\* call every node of G.nodes() has getParent() == G.
C18_AddNodeParent ==
  [][status' # "ub" =>
       /\ (Called("addNode") \/ Called("addNodeOwned")) =>
            \A Parent \in Parents :
              (AddNode \/ AddNodeOwned(Parent)) =>
                /\ status' = "running"
                /\ Len(Nodes') = Len(Nodes) + 1
                /\ Nodes'[Len(Nodes')] \notin Constructed
                /\ Nodes'[addNode(Graph, Nodes'[Len(Nodes')]).it]
                     = Nodes'[Len(Nodes')]
                /\ SubSeq(Nodes', 1, Len(Nodes)) = Nodes
       /\ \A n \in Alive(Graph') : TheParent'[n] = "G"]_vars

\* C18 witness: the graph has taken a node the caller built, after a node it
\* constructed itself.
C18_Witness ==
  /\ status = "running"
  /\ last.op = "addNodeOwned"
  /\ Len(Nodes) = 2
  /\ Constructed = {1, 2, 3}
  /\ TheParent[Nodes[2]] = "G"

\* The elements of the sequence s.
Elements(s) == {s[i] : i \in 1..Len(s)}

\* C19: for every node N of a graph of MutableEdgeNode, the children seen
\* through GraphTraits are N.successors() in the same order, and through
\* llvm::Inverse N.predecessors() in the same order; the graph's node range,
\* size and entry node are G.nodes(), G.size() and G.getEntryNode(); hence B
\* is an inverse child of A exactly when A is a forward child of B.
C19_TraversalContract ==
  Defined =>
    /\ \A N \in Alive(Graph) :
         /\ children(Graph, N) = successors(Graph, N)
         /\ Len(children(Graph, N)) = successorCount(Graph, N)
         /\ Inverse_children(Graph, N) = predecessors(Graph, N)
         /\ Len(Inverse_children(Graph, N)) = predecessorCount(Graph, N)
    /\ GraphTraits_nodes(Graph) = Nodes
    /\ GraphTraits_size(Graph) = Len(Nodes)
    /\ GraphTraits_getEntryNode(Graph) = EntryNode
    /\ \A A, B \in Alive(Graph) :
         B \in Elements(Inverse_children(Graph, A))
           <=> A \in Elements(children(Graph, B))

\* C19 witness: after a removal by value, with the entry node set, a node A
\* of the graph has B as its forward child and B has A as its inverse child.
C19_Witness ==
  /\ status = "running"
  /\ EntryNode # nullptr
  /\ last.op \in {"removeSuccessor", "removePredecessor"}
  /\ last.n = 1
  /\ \E A, B \in Alive(Graph) :
       /\ A # B
       /\ children(Graph, A) = <<B>>
       /\ Inverse_children(Graph, B) = <<A>>

\* C20: one allocation per edge: in every state of a run that has not
\* aborted, every predecessor record for A on a node B points to a live
\* label, the one owned by A's successor record for B, and the label read
\* through either record is the same value, also after it was written
\* through one of them and after removals have reordered the vectors.
C20_SingleLabelAllocation ==
  (Defined /\ status # "aborted") =>
    \A B \in NodeIds : \A i \in 1..Len(Predecessors[B]) :
      LET V == Predecessors[B][i]
          A == V.Neighbor
      IN  /\ V.Label \in Live(Heap)
          /\ hasSuccessor(Graph, A, B)
          /\ successorLabel(Graph, A, B) = V.Label
          /\ EdgeView_Label(Graph, Successors[A][findSuccessorImpl(Graph, A, B)])
               = EdgeView_Label(Graph, V)

\* C20 witness: a label written through the predecessor side holds a value
\* other than the one it was added with, while the node has another
\* predecessor whose label holds the value it was added with.
C20_Witness ==
  /\ status = "running"
  /\ last.op = "writePredecessorLabel"
  /\ \E B \in Alive(Graph) :
       /\ Len(Predecessors[B]) = 2
       /\ EdgeView_Label(Graph, Predecessors[B][1]) = DefaultLabel
       /\ EdgeView_Label(Graph, Predecessors[B][2]) \in LabelValues


\* The records of vector v, and those of them that do not name node N.
RecordSet(v) == {v[i] : i \in 1..Len(v)}

Without(v, N) == {v[i] : i \in {j \in 1..Len(v) : v[j].Neighbor # N}}

\* The label allocations other than the ones in gone are alive after the step
\* and hold the value they held before it.
LabelsKept(gone) ==
  \A l \in Live(Heap) \ gone : l \in Live(Heap') /\ Heap'[l] = Heap[l]

\* The labels of the edges incident to node N.
IncidentLabels(g, N) ==
  {g.S[N][i].Label : i \in 1..Len(g.S[N])}
    \cup {g.P[N][i].Label : i \in 1..Len(g.P[N])}

\* C21: a removal touches only the edges it targets.  A.removeSuccessor(B)
\* and B.removePredecessor(A) on an existing edge A -> B change no vector but
\* A's Successors and B's Predecessors, which keep every other record (the
\* order may change), and leave every other label alive with its value;
\* N.disconnect() and G.removeNode(N) leave in every other node's vectors
\* exactly the records that do not name N, and every label of an edge not
\* incident to N alive with its value.
C21_RemovalFrame ==
  [][/\ (Called("removeSuccessor") \/ Called("removePredecessor")) =>
          \A A, B \in NodeIds :
            ((RemoveSuccessor(A, B) \/ RemovePredecessor(B, A))
               /\ hasSuccessor(Graph, A, B)) =>
              /\ status' = "running"
              /\ \A x \in NodeIds \ {A} : Successors'[x] = Successors[x]
              /\ \A x \in NodeIds \ {B} : Predecessors'[x] = Predecessors[x]
              /\ RecordSet(Successors'[A]) = Without(Successors[A], B)
              /\ Len(Successors'[A]) = Len(Successors[A]) - 1
              /\ RecordSet(Predecessors'[B]) = Without(Predecessors[B], A)
              /\ Len(Predecessors'[B]) = Len(Predecessors[B]) - 1
              /\ LabelsKept({successorLabel(Graph, A, B)})
     /\ (Called("disconnect") \/ Called("removeNode")) =>
          \A N \in Alive(Graph) :
            (Disconnect(N) \/ RemoveNode(N)) =>
              /\ status' = "running"
              /\ \A x \in NodeIds \ {N} :
                   /\ RecordSet(Successors'[x]) = Without(Successors[x], N)
                   /\ Len(Successors'[x]) = Len(Successors[x]) - Count(Successors[x], N)
                   /\ RecordSet(Predecessors'[x]) = Without(Predecessors[x], N)
                   /\ Len(Predecessors'[x]) = Len(Predecessors[x]) - Count(Predecessors[x], N)
              /\ LabelsKept(IncidentLabels(Graph, N))]_vars

\* C21 witness: removePredecessor removed one of the two incoming edges of a
\* node, and the other one is still there.
C21_Witness ==
  /\ status = "running"
  /\ last.op = "removePredecessor"
  /\ last.n = 1
  /\ \E A, B \in NodeIds :
       /\ Len(Predecessors[B]) = 1
       /\ Count(Predecessors[B], A) = 1
       /\ Count(Successors[A], B) = 1


\* C22: the iterator a removal returns is where a loop goes on.  On a
\* ForwardNode removeSuccessor(It) returns the position of the record that
\* followed the removed one, or end; on a MutableEdgeNode it returns the same
\* position, which now holds the record that was last, or end when the
\* removed record was the last; either way one record is gone, and the loop
\* It = removeSuccessor(It) from begin until end empties the vector without
\* reading a position at or past end.
C22_IteratorContinuation ==
  status = "running" =>
    \A A \in Alive(Graph) :
      LET v == Successors[A]
      IN  /\ IsForward =>
               /\ \A It \in 1..Len(v) :
                    LET r == ForwardNode_removeSuccessor(Graph, A, It)
                    IN  /\ r.st = "ok"
                        /\ Len(r.g.S[A]) = Len(v) - 1
                        /\ r.it \in 1..End(r.g.S[A])
                        /\ It < Len(v) => r.g.S[A][r.it] = v[It + 1]
                        /\ It = Len(v) => r.it = End(r.g.S[A])
               /\ LET d == ForwardNode_drainSuccessors(Graph, A, 1)
                  IN  d.st = "ok" /\ d.g.S[A] = <<>>
          /\ (IsMutableEdge /\ ~IsForward) =>
               /\ \A It \in 1..Len(v) :
                    LET r == removeSuccessorImpl(Graph, A, It)
                    IN  /\ r.st = "ok"
                        /\ Len(r.g.S[A]) = Len(v) - 1
                        /\ r.it = It
                        /\ It < Len(v) => r.g.S[A][r.it] = v[Len(v)]
                        /\ It = Len(v) => r.it = End(r.g.S[A])
               /\ LET d == drainSuccessors(Graph, A, 1)
                  IN  d.st = "ok" /\ d.g.S[A] = <<>>

\* C22 witness: a removal through an iterator has returned on a
\* MutableEdgeNode graph, and a node holds one more successor record, the
\* removal of which returns end.
C22_Witness ==
  /\ status = "running"
  /\ last.op = "removeSuccessorAt"
  /\ ~IsForward
  /\ \E A \in NodeIds : Len(Successors[A]) = 1


\* C23: edges are unique per direction.  A.addSuccessor(B) on a node A with
\* no successor record naming B returns, whether or not the edge B -> A
\* exists and also when A = B; afterwards A -> B is there with B -> A if
\* B -> A was there, and removing either of the two leaves the other.
C23_UniquePerDirection ==
  [][Called("addSuccessor") => \A A, B \in NodeIds, EL \in LabelValues :
       (AddSuccessor(A, B, EL) /\ Count(Successors[A], B) = 0) =>
         /\ status' = "running"
         /\ Count(Successors'[A], B) = 1
         /\ A # B => Count(Successors'[B], A) = Count(Successors[B], A)
         /\ (A # B /\ Count(Successors[B], A) = 1) =>
              /\ LET r == removeSuccessor(Graph', A, B)
                 IN  /\ r.st = "ok"
                     /\ Count(r.g.S[A], B) = 0 /\ Count(r.g.P[B], A) = 0
                     /\ Count(r.g.S[B], A) = 1 /\ Count(r.g.P[A], B) = 1
              /\ LET r == removeSuccessor(Graph', B, A)
                 IN  /\ r.st = "ok"
                     /\ Count(r.g.S[B], A) = 0 /\ Count(r.g.P[A], B) = 0
                     /\ Count(r.g.S[A], B) = 1 /\ Count(r.g.P[B], A) = 1]_vars

\* C23 witness: addSuccessor has returned and the two nodes of the new edge
\* are joined by an edge in each direction.
C23_Witness ==
  /\ status = "running"
  /\ last.op = "addSuccessor"
  /\ last.n = 0
  /\ \E A, B \in NodeIds :
       /\ A # B
       /\ Count(Successors[A], B) = 1 /\ Count(Successors[B], A) = 1
       /\ Successors[A][Len(Successors[A])].Neighbor = B


\* nodes(): the owned nodes from Nodes.begin() to Nodes.end().
nodes(g) == [i \in 1..Len(g.N) |-> g.N[i]]

\* The sequence v without its element x, the others in their order.
Remaining(v, x) == SelectSeq(v, LAMBDA y : y # x)

\* C24: nodes() enumerates the nodes of the graph in the order in which they
\* were added (a node constructed later has a larger identity): addNode puts
\* the new node last, removeNode of a node of the graph leaves the others in
\* their order, and the iterator removeNode returns is at the node that
\* followed the removed one, or at end when it was the last.
C24_NodeOrder ==
  [][/\ \A i, j \in 1..Len(nodes(Graph')) :
          i < j => nodes(Graph')[i] < nodes(Graph')[j]
     /\ (Called("addNode") /\ AddNode /\ status' = "running") =>
          /\ Len(nodes(Graph')) = Len(nodes(Graph)) + 1
          /\ SubSeq(nodes(Graph'), 1, Len(nodes(Graph))) = nodes(Graph)
     /\ Called("removeNode") => \A N \in Alive(Graph) :
          RemoveNode(N) =>
            LET It == findNode(Graph, N)
                r == removeNode(Graph, It)
            IN  /\ status' = "running"
                /\ nodes(Graph') = Remaining(nodes(Graph), N)
                /\ It < Len(Nodes) => nodes(Graph')[r.it] = nodes(Graph)[It + 1]
                /\ It = Len(Nodes) => r.it = End(Nodes')]_vars

\* C24 witness: removeNode has returned on a node that was neither the first
\* nor the last of three, and the other two are in the order they had.
C24_Witness ==
  /\ status = "running"
  /\ last.op = "removeNode"
  /\ Constructed = {1, 2, 3}
  /\ Nodes = <<1, 3>>


C26_AddRemoveRoundTrip ==
  status = "running" =>
    \A A, B \in Alive(Graph), L \in LabelValues :
      ~hasSuccessor(Graph, A, B) =>
        LET a == addSuccessor(Graph, A, B, L)
            r == removeSuccessor(a.g, A, B)
        IN  /\ a.st = "ok"
            /\ a.g # Graph
            /\ r.st = "ok"
            /\ r.g = Graph

\* C26 witness: removeSuccessor has removed the edge A -> B from a node A
\* that keeps another successor record, so that an edge A -> B added and
\* removed again goes through a vector that is not empty.
C26_Witness ==
  /\ status = "running"
  /\ last.op = "removeSuccessor"
  /\ last.n = 1
  /\ \E A, B \in Alive(Graph) :
       ~hasSuccessor(Graph, A, B) /\ hasSuccessors(Graph, A)


C28_AbsentEdgeRemoval ==
  [][(Called("removeSuccessor") \/ Called("removePredecessor")) =>
       \A A, B \in NodeIds :
         \/ RemoveSuccessor(A, B) /\ ~hasSuccessor(Graph, A, B)
         \/ RemovePredecessor(B, A) /\ ~hasPredecessor(Graph, B, A)
         => /\ status' = "running"
            /\ Successors' = Successors
            /\ Predecessors' = Predecessors]_vars


\* C29: an addSuccessor that returns changes two vectors only.
\* A.addSuccessor(B, L) appends one record naming B at the end of A's
\* Successors and one record naming A at the end of B's Predecessors, and
\* leaves every other vector, every label that was alive, the nodes of the
\* graph, their back-references and the entry node as they were.
C29_AddFrame ==
  [][Called("addSuccessor") => \A A, B \in NodeIds, L \in LabelValues :
       (AddSuccessor(A, B, L) /\ status' = "running") =>
         /\ Len(Successors'[A]) = Len(Successors[A]) + 1
         /\ SubSeq(Successors'[A], 1, Len(Successors[A])) = Successors[A]
         /\ Successors'[A][Len(Successors'[A])].Neighbor = B
         /\ Len(Predecessors'[B]) = Len(Predecessors[B]) + 1
         /\ SubSeq(Predecessors'[B], 1, Len(Predecessors[B])) = Predecessors[B]
         /\ Predecessors'[B][Len(Predecessors'[B])].Neighbor = A
         /\ \A x \in NodeIds \ {A} : Successors'[x] = Successors[x]
         /\ \A x \in NodeIds \ {B} : Predecessors'[x] = Predecessors[x]
         /\ LabelsKept({})
         /\ Cardinality(Live(Heap')) = Cardinality(Live(Heap)) + 1
         /\ Nodes' = Nodes
         /\ TheParent' = TheParent
         /\ EntryNode' = EntryNode]_vars

\* C29 witness: addSuccessor has returned on a graph with an entry node and
\* has appended a second record to a node's Successors, after a label that
\* was alive before.
C29_Witness ==
  /\ status = "running"
  /\ last.op = "addSuccessor"
  /\ last.n = 0
  /\ EntryNode # nullptr
  /\ \E A \in NodeIds : Len(Successors[A]) = 2


\* C30: the indentation of a logger never goes below zero.  On an enabled
\* logger unindent(Level) with Level > IndentLevel stops at its assertion
\* and IndentLevel does not wrap; with Level <= IndentLevel it returns with
\* IndentLevel smaller by Level; and on a logger that is not enabled indent,
\* unindent and setIndentation leave IndentLevel as it is.
C30_IndentationNotNegative ==
  [][\A Level \in 0..MaxLevel :
       /\ (Unindent(Level) /\ isEnabled /\ Level > IndentLevel) =>
            (status' = "aborted" /\ IndentLevel' = IndentLevel)
       /\ (Unindent(Level) /\ isEnabled /\ Level <= IndentLevel) =>
            (status' = "running" /\ IndentLevel' = IndentLevel - Level)
       /\ ((Indent(Level) \/ Unindent(Level) \/ SetIndentation(Level))
             /\ ~isEnabled) => IndentLevel' = IndentLevel]_vars

====
